---- MODULE Spec2Model ----
(***************************************************************************)
(* Token Bucket Filter (tbf) queueing discipline of systemd-networkd:     *)
(* the two config-line handlers, the section validator and the netlink    *)
(* encoder of src/network/tc/tbf.c, driven by the qdisc registry the way  *)
(* networkd drives them: parse the lines of one [TokenBufferFilter]       *)
(* section, verify the section, then fill the netlink request.            *)
(***************************************************************************)
EXTENDS Integers, Naturals, Sequences, FiniteSets, TLC

(***************************************************************************)
(* Unsigned integers of the C code.  The fields are up to 64 bits wide and *)
(* the limit computation multiplies two of them, so a value is kept as its *)
(* little-endian sequence of base-256 digits with no leading zero digit    *)
(* (0 is <<>>): two values are equal iff their sequences are equal.        *)
(***************************************************************************)
Base == 2^8

Max(x, y) == IF x >= y THEN x ELSE y

Min(x, y) == IF x <= y THEN x ELSE y

RECURSIVE U(_)
U(n) == IF n = 0 THEN <<>> ELSE <<n % Base>> \o U(n \div Base)

RECURSIVE Trim(_)
Trim(s) ==
    IF s = <<>> THEN s
    ELSE IF s[Len(s)] = 0 THEN Trim(SubSeq(s, 1, Len(s) - 1))
    ELSE s

Digit(a, i) == IF i <= Len(a) THEN a[i] ELSE 0

\* 2^k
Pow2(k) == [i \in 1..(k \div 8 + 1) |-> IF i = k \div 8 + 1 THEN 2^(k % 8) ELSE 0]

\* the digits i.. of a + b, given the carry c into digit i
RECURSIVE AddFrom(_, _, _, _)
AddFrom(a, b, i, c) ==
    IF i > Len(a) /\ i > Len(b) THEN (IF c = 0 THEN <<>> ELSE <<c>>)
    ELSE LET d == Digit(a, i) + Digit(b, i) + c
         IN  <<d % Base>> \o AddFrom(a, b, i + 1, d \div Base)

Add(a, b) == Trim(AddFrom(a, b, 1, 0))

\* the digits i.. of a * d for one digit d, given the carry c into digit i
RECURSIVE MulDigitFrom(_, _, _, _)
MulDigitFrom(a, d, i, c) ==
    IF i > Len(a) THEN (IF c = 0 THEN <<>> ELSE <<c>>)
    ELSE LET m == a[i] * d + c
         IN  <<m % Base>> \o MulDigitFrom(a, d, i + 1, m \div Base)

MulDigit(a, d) == Trim(MulDigitFrom(a, d, 1, 0))

RECURSIVE Mul(_, _)
Mul(a, b) ==
    IF b = <<>> THEN <<>>
    ELSE LET hi == Mul(a, Tail(b))
         IN  Add(MulDigit(a, b[1]), IF hi = <<>> THEN hi ELSE <<0>> \o hi)

\* the digits 1..i of a \div d, given the remainder r of the digits above i
RECURSIVE DivFrom(_, _, _, _)
DivFrom(a, d, i, r) ==
    IF i = 0 THEN <<>>
    ELSE LET cur == r * Base + a[i]
         IN  DivFrom(a, d, i - 1, cur % d) \o <<cur \div d>>

\* a \div d for a divisor d < 2^23
DivSmall(a, d) == Trim(DivFrom(a, d, Len(a), 0))

RECURSIVE LessFrom(_, _, _)
LessFrom(a, b, i) ==
    IF i = 0 THEN FALSE
    ELSE IF a[i] # b[i] THEN a[i] < b[i]
    ELSE LessFrom(a, b, i - 1)

Less(a, b) == IF Len(a) # Len(b) THEN Len(a) < Len(b) ELSE LessFrom(a, b, Len(a))

MinOf(a, b) == IF Less(b, a) THEN b ELSE a

\* conversion to an unsigned type of `bits` bits: the value modulo 2^bits
Wrap(a, bits) == Trim(SubSeq(a, 1, Min(Len(a), bits \div 8)))

Zero == <<>>

\* ~0U
U32Max == <<255, 255, 255, 255>>

(***************************************************************************)
(* Constants of the code.                                                  *)
(***************************************************************************)
USEC_PER_SEC == 1000000

ENOMEM == 12

EINVAL == 22

\* widths of uint32_t (burst, mtu, the __u32 fields of tc_tbf_qopt), of
\* uint64_t (rate, peak_rate, latency, the parsed k) and of the
\* unsigned short mpu of struct tc_ratespec
U32Bits == 32

U64Bits == 64

U16Bits == 16

\* size_t, the type of limit and mpu, on the 64-bit builds
SizeTBits == U64Bits

\* the log functions return the negative errno they were given
log_errno(e) == IF e < 0 THEN e ELSE -e

(***************************************************************************)
(* The configuration lines of one section.  The value parsers are external *)
(* (parse-util, time-util); they are given by what they return on the     *)
(* strings the model feeds to the handlers.                               *)
(***************************************************************************)
SizeLValues == {"Rate", "Burst", "LimitSize", "MTUBytes", "MPUBytes", "PeakRate"}

\* parse_size(rvalue, 1000, &k): k on success, r < 0 on a string it rejects
parse_size(rvalue) ==
    CASE rvalue = "64"   -> [r |-> 0, k |-> U(64)]
      [] rvalue = "1600" -> [r |-> 0, k |-> U(1600)]
      [] rvalue = "10K"  -> [r |-> 0, k |-> U(10000)]
      [] rvalue = "1M"   -> [r |-> 0, k |-> U(1000000)]
      [] rvalue = "4294967296" -> [r |-> 0, k |-> Pow2(32)]
      [] rvalue = "1T"   -> [r |-> 0, k |-> Mul(U(1000000), U(1000000))]
      [] OTHER           -> [r |-> -EINVAL, k |-> Zero]

\* parse_sec(rvalue, &u): u in microseconds
parse_sec(rvalue) ==
    CASE rvalue = "50ms"  -> [r |-> 0, u |-> U(50000)]
      [] rvalue = "100ms" -> [r |-> 0, u |-> U(100000)]
      [] OTHER            -> [r |-> -EINVAL, u |-> Zero]

\* a key that is none of the six the function compares lvalue with
OtherLValue == "Unrecognized"

\* the right-hand sides the model writes for each key
RValues(lvalue) ==
    CASE lvalue = "Rate"       -> {"", "bogus", "1M", "1T"}
      [] lvalue = "PeakRate"   -> {"", "1M", "1T"}
      [] lvalue = "Burst"      -> {"", "bogus", "1600", "10K", "4294967296"}
      [] lvalue = "MTUBytes"   -> {"", "1600"}
      [] lvalue = "LimitSize"  -> {"", "10K", "4294967296"}
      [] lvalue = "MPUBytes"   -> {"", "64"}
      [] lvalue = "LatencySec" -> {"", "bogus", "50ms", "100ms"}
      [] lvalue = OtherLValue  -> {"1600"}

(***************************************************************************)
(* State.                                                                  *)
(***************************************************************************)
VARIABLES
    kind,       \* discipline kind registered for the section: "none", "tbf", "other"
    tbf,        \* the TokenBufferFilter of the section
    invalid,    \* qdisc->section->invalid
    pc,         \* "parsing" while lines are read, "verified" after
                \* qdisc_section_verify, "configured" after the encoder ran
    dropped,    \* the section was dropped by the verification
    req,        \* the attributes of the netlink request, in order
    ret,        \* the value the last call returned
    last,       \* the last call and its arguments
    log,        \* the options named by the warnings of the validator
    trace       \* the lines that were stored so far, when they are recorded

vars == <<kind, tbf, invalid, pc, dropped, req, ret, last, log, trace>>

\* a TokenBufferFilter as qdisc_new allocates it: all fields zero
NewTbf ==
    [rate |-> Zero, peak_rate |-> Zero, burst |-> Zero, mtu |-> Zero,
     latency |-> Zero, limit |-> Zero, mpu |-> Zero]

\* fail names the call that failed inside it (if one did) and err the error
\* that call returned
Call(op, lvalue, rvalue, fail, err) ==
    [op |-> op, lvalue |-> lvalue, rvalue |-> rvalue, fail |-> fail, err |-> err]

\* the value of trace when the lines are not recorded
NoTrace == <<[lvalue |-> "off", rvalue |-> ""]>>

\* trace after a line Key=rvalue that cleared the handler's pointer or not
Traced(tr, lvalue, rvalue, cleared) ==
    IF tr = NoTrace \/ ~cleared THEN tr
    ELSE Append(tr, [lvalue |-> lvalue, rvalue |-> rvalue])

Init ==
    /\ kind = "none"
    /\ tbf = NewTbf
    /\ invalid = FALSE
    /\ pc = "parsing"
    /\ dropped = FALSE
    /\ req = <<>>
    /\ ret = 0
    /\ last = Call("init", "", "", "", 0)
    /\ log = <<>>
    /\ trace = NoTrace

(***************************************************************************)
(* qdisc_new_static(QDISC_KIND_TBF, ...): the section's discipline, made   *)
(* and registered on first use.  -ENOMEM when an allocation fails, -EINVAL *)
(* when the section already holds a discipline of another kind.            *)
(***************************************************************************)
qdisc_new_static(want, oom) ==
    IF oom THEN [r |-> -ENOMEM, kind |-> kind, qdisc |-> tbf]
    ELSE IF kind = "none" THEN [r |-> 0, kind |-> want, qdisc |-> NewTbf]
    ELSE IF kind # want THEN [r |-> -EINVAL, kind |-> kind, qdisc |-> tbf]
    ELSE [r |-> 0, kind |-> kind, qdisc |-> tbf]

(***************************************************************************)
(* config_parse_token_buffer_filter_size                                   *)
(***************************************************************************)
\* faulty variant of SizeReset: MTUBytes= clears mpu instead of mtu
SizeResetMtuClearsMpu(t, lvalue) ==
    CASE lvalue = "Rate"      -> [t EXCEPT !.rate = Zero]
      [] lvalue = "Burst"     -> [t EXCEPT !.burst = Zero]
      [] lvalue = "LimitSize" -> [t EXCEPT !.limit = Zero]
      [] lvalue = "MTUBytes"  -> [t EXCEPT !.mpu = Zero]
      [] lvalue = "MPUBytes"  -> [t EXCEPT !.mpu = Zero]
      [] lvalue = "PeakRate"  -> [t EXCEPT !.peak_rate = Zero]
      [] OTHER                -> t

\* isempty(rvalue): the field named by lvalue is reset
SizeReset(t, lvalue) ==
    CASE lvalue = "Rate"      -> [t EXCEPT !.rate = Zero]
      [] lvalue = "Burst"     -> [t EXCEPT !.burst = Zero]
      [] lvalue = "LimitSize" -> [t EXCEPT !.limit = Zero]
      [] lvalue = "MTUBytes"  -> [t EXCEPT !.mtu = Zero]
      [] lvalue = "MPUBytes"  -> [t EXCEPT !.mpu = Zero]
      [] lvalue = "PeakRate"  -> [t EXCEPT !.peak_rate = Zero]
      [] OTHER                -> t

\* faulty variant of SizeAssign: the branches of MPUBytes= and MTUBytes= are
\* exchanged
SizeAssignSwapsMtuMpu(t, lvalue, k) ==
    CASE lvalue = "Rate"      -> [t EXCEPT !.rate = DivSmall(k, 8)]
      [] lvalue = "Burst"     -> [t EXCEPT !.burst = Wrap(k, U32Bits)]
      [] lvalue = "LimitSize" -> [t EXCEPT !.limit = Wrap(k, SizeTBits)]
      [] lvalue = "MPUBytes"  -> [t EXCEPT !.mtu = Wrap(k, U32Bits)]
      [] lvalue = "MTUBytes"  -> [t EXCEPT !.mpu = Wrap(k, SizeTBits)]
      [] lvalue = "PeakRate"  -> [t EXCEPT !.peak_rate = DivSmall(k, 8)]
      [] OTHER                -> t

\* the parsed k is stored in the field named by lvalue
SizeAssign(t, lvalue, k) ==
    CASE lvalue = "Rate"      -> [t EXCEPT !.rate = DivSmall(k, 8)]
      [] lvalue = "Burst"     -> [t EXCEPT !.burst = Wrap(k, U32Bits)]
      [] lvalue = "LimitSize" -> [t EXCEPT !.limit = Wrap(k, SizeTBits)]
      [] lvalue = "MPUBytes"  -> [t EXCEPT !.mpu = Wrap(k, SizeTBits)]
      [] lvalue = "MTUBytes"  -> [t EXCEPT !.mtu = Wrap(k, U32Bits)]
      [] lvalue = "PeakRate"  -> [t EXCEPT !.peak_rate = DivSmall(k, 8)]
      [] OTHER                -> t

\* faulty variant of SizeBody: the pointer is not cleared after the value
\* was stored
SizeBodyKeepsPointer(t, lvalue, rvalue) ==
    IF rvalue = ""
    THEN [tbf |-> SizeReset(t, lvalue), r |-> 0, cleared |-> TRUE,
          fail |-> "", err |-> 0]
    ELSE LET p == parse_size(rvalue)
         IN  IF p.r < 0
             THEN [tbf |-> t, r |-> 0, cleared |-> FALSE,
                   fail |-> "parse_size", err |-> p.r]
             ELSE [tbf |-> SizeAssign(t, lvalue, p.k), r |-> 0, cleared |-> FALSE,
                   fail |-> "", err |-> 0]

\* the handler from line 143 on, for the entity t that qdisc_new_static gave:
\* the entity it leaves, the value it returns, and whether it cleared its
\* local pointer (qdisc = NULL) before returning
SizeBody(t, lvalue, rvalue) ==
    IF rvalue = ""
    THEN [tbf |-> SizeReset(t, lvalue), r |-> 0, cleared |-> TRUE,
          fail |-> "", err |-> 0]
    ELSE LET p == parse_size(rvalue)
         IN  IF p.r < 0
             THEN [tbf |-> t, r |-> 0, cleared |-> FALSE,
                   fail |-> "parse_size", err |-> p.r]
             ELSE [tbf |-> SizeAssign(t, lvalue, p.k), r |-> 0, cleared |-> TRUE,
                   fail |-> "", err |-> 0]

\* the return for a qdisc_new_static failure (lines 137-141)
\* log_oom() for -ENOMEM, else the value of log_syntax(..., r, ...)
NewStaticFailed(r) == IF r = -ENOMEM THEN -ENOMEM ELSE log_errno(r)

\* _cleanup_(qdisc_free_or_set_invalidp): a pointer the handler did not clear
\* belongs to a section, which is marked invalid
CleanupInvalid(cleared) == invalid \/ ~cleared

config_parse_token_buffer_filter_size(lvalue, rvalue, oom) ==
    /\ pc = "parsing"
    /\ LET n == qdisc_new_static("tbf", oom)
       IN  IF n.r < 0
           THEN /\ ret' = NewStaticFailed(n.r)
                /\ last' = Call("size", "", "", "qdisc_new_static", n.r)
                /\ UNCHANGED <<kind, tbf, invalid, trace>>
           ELSE LET b == SizeBody(n.qdisc, lvalue, rvalue)
                IN  /\ kind' = n.kind
                    /\ tbf' = b.tbf
                    /\ invalid' = CleanupInvalid(b.cleared)
                    /\ ret' = b.r
                    /\ last' = Call("size", lvalue, rvalue, b.fail, b.err)
                    /\ trace' = Traced(trace, lvalue, rvalue, b.cleared)
    /\ UNCHANGED <<pc, dropped, req, log>>

(***************************************************************************)
(* config_parse_token_buffer_filter_latency                                *)
(***************************************************************************)
LatencyBody(t, rvalue) ==
    IF rvalue = ""
    THEN [tbf |-> [t EXCEPT !.latency = Zero], r |-> 0, cleared |-> TRUE,
          fail |-> "", err |-> 0]
    ELSE LET p == parse_sec(rvalue)
         IN  IF p.r < 0
             THEN [tbf |-> t, r |-> 0, cleared |-> FALSE,
                   fail |-> "parse_sec", err |-> p.r]
             ELSE [tbf |-> [t EXCEPT !.latency = p.u], r |-> 0, cleared |-> TRUE,
                   fail |-> "", err |-> 0]

config_parse_token_buffer_filter_latency(rvalue, oom) ==
    /\ pc = "parsing"
    /\ LET n == qdisc_new_static("tbf", oom)
       IN  IF n.r < 0
           THEN /\ ret' = NewStaticFailed(n.r)
                /\ last' = Call("latency", "", "", "qdisc_new_static", n.r)
                /\ UNCHANGED <<kind, tbf, invalid, trace>>
           ELSE LET b == LatencyBody(n.qdisc, rvalue)
                IN  /\ kind' = n.kind
                    /\ tbf' = b.tbf
                    /\ invalid' = CleanupInvalid(b.cleared)
                    /\ ret' = b.r
                    /\ last' = Call("latency", "LatencySec", rvalue, b.fail, b.err)
                    /\ trace' = Traced(trace, "LatencySec", rvalue, b.cleared)
    /\ UNCHANGED <<pc, dropped, req, log>>

\* a line of another discipline registers that discipline for the section
OtherKindLine ==
    /\ pc = "parsing"
    /\ kind = "none"
    /\ kind' = "other"
    /\ ret' = 0
    /\ last' = Call("other", "", "", "", 0)
    /\ UNCHANGED <<tbf, invalid, pc, dropped, req, log, trace>>

(***************************************************************************)
(* token_buffer_filter_verify                                              *)
(***************************************************************************)
\* faulty variant of token_buffer_filter_verify: the Burst= rule is missing
VerifyWithoutBurstRule(t) ==
    IF t.limit # Zero /\ t.latency # Zero THEN log_errno(EINVAL)
    ELSE IF t.limit = Zero /\ t.latency = Zero THEN log_errno(EINVAL)
    ELSE IF t.rate = Zero THEN log_errno(EINVAL)
    ELSE IF t.peak_rate # Zero /\ t.mtu = Zero THEN log_errno(EINVAL)
    ELSE 0

token_buffer_filter_verify(t) ==
    IF t.limit # Zero /\ t.latency # Zero THEN log_errno(EINVAL)
    ELSE IF t.limit = Zero /\ t.latency = Zero THEN log_errno(EINVAL)
    ELSE IF t.rate = Zero THEN log_errno(EINVAL)
    ELSE IF t.burst = Zero THEN log_errno(EINVAL)
    ELSE IF t.peak_rate # Zero /\ t.mtu = Zero THEN log_errno(EINVAL)
    ELSE 0

\* faulty variant of VerifyWarnings: Burst= is tested before Rate=
VerifyWarningsBurstFirst(t) ==
    IF t.limit # Zero /\ t.latency # Zero THEN <<"LimitSize+LatencySec">>
    ELSE IF t.limit = Zero /\ t.latency = Zero THEN <<"LimitSize|LatencySec">>
    ELSE IF t.burst = Zero THEN <<"Burst">>
    ELSE IF t.rate = Zero THEN <<"Rate">>
    ELSE IF t.peak_rate # Zero /\ t.mtu = Zero THEN <<"MTUBytes">>
    ELSE <<>>

\* the warnings the function logs, each by the option it names: the function
\* returns with the first one
VerifyWarnings(t) ==
    IF t.limit # Zero /\ t.latency # Zero THEN <<"LimitSize+LatencySec">>
    ELSE IF t.limit = Zero /\ t.latency = Zero THEN <<"LimitSize|LatencySec">>
    ELSE IF t.rate = Zero THEN <<"Rate">>
    ELSE IF t.burst = Zero THEN <<"Burst">>
    ELSE IF t.peak_rate # Zero /\ t.mtu = Zero THEN <<"MTUBytes">>
    ELSE <<>>

\* qdisc_section_verify of the registry, once the file is read: a section
\* marked invalid is dropped unseen, the others are dropped when the
\* discipline's verify rejects them
qdisc_section_verify ==
    /\ pc = "parsing"
    /\ kind = "tbf"
    /\ pc' = "verified"
    /\ ret' = (IF invalid THEN -EINVAL ELSE token_buffer_filter_verify(tbf))
    /\ dropped' = (ret' < 0)
    /\ last' = Call("verify", "", "", "", 0)
    /\ log' = (IF invalid THEN <<>> ELSE VerifyWarnings(tbf))
    /\ UNCHANGED <<kind, tbf, invalid, req, trace>>

(***************************************************************************)
(* token_buffer_filter_fill_message                                        *)
(***************************************************************************)
\* the external calculators of tc-util, kept as the terms they are applied to
tc_fill_ratespec(spec, mtu) == [spec EXCEPT !.table = [filled |-> TRUE, mtu |-> mtu]]

tc_table(spec, mtu) == [rate |-> spec.rate, mpu |-> spec.mpu, mtu |-> mtu]

tc_transmit_time(rate, size) == [rate |-> rate, size |-> size]

\* struct tc_ratespec and struct tc_tbf_qopt, zero-initialised (opt = {})
NoTime == [rate |-> Zero, size |-> Zero]

ZeroRatespec == [rate |-> Zero, mpu |-> Zero, table |-> [filled |-> FALSE, mtu |-> Zero]]

ZeroOpt ==
    [rate |-> ZeroRatespec, peakrate |-> ZeroRatespec, limit |-> Zero,
     buffer |-> NoTime, mtu |-> NoTime]

\* faulty variant of Rate32: the rate is converted without the test
Rate32Truncates(rate) == Wrap(rate, U32Bits)

\* rate >= (1ULL << 32) ? ~0U : rate
Rate32(rate) == IF ~Less(rate, Pow2(32)) THEN U32Max ELSE rate

\* rate * (double) latency / USEC_PER_SEC + bytes, kept exactly, in units of
\* 1/USEC_PER_SEC
Lim(rate, latency, bytes) == Add(Mul(rate, latency), Mul(bytes, U(USEC_PER_SEC)))

\* the outcomes of converting a double that the __u32 limit cannot hold
UBOutcomes == {"zero", "max", "wrap"}

\* opt.limit = lim: the double is truncated toward zero.  A result below 2^32
\* is computed without rounding error: rate * latency is then below 2^52,
\* the quotient and the sum are off by less than 5e-7, and a quotient that is
\* no integer is at least 1e-6 from the next one.  For a result of 2^32 or
\* more the conversion is undefined; ub names the outcome the build produces.
DoubleToU32(x, ub) ==
    LET f == DivSmall(x, USEC_PER_SEC)
    IN  IF Less(f, Pow2(32)) THEN f
        ELSE CASE ub = "zero" -> Zero
               [] ub = "max"  -> U32Max
               [] OTHER       -> Wrap(f, U32Bits)

\* lines 33-44
EffectiveLimit(t, ub) ==
    IF t.limit # Zero THEN Wrap(t.limit, U32Bits)
    ELSE LET lim  == Lim(t.rate, t.latency, t.burst)
             lim2 == Lim(t.peak_rate, t.latency, t.mtu)
         IN  DoubleToU32(IF t.peak_rate # Zero THEN MinOf(lim, lim2) ELSE lim, ub)

\* whether the peak branch is taken: opt.peakrate.rate > 0
PeakBranch(t) == Rate32(t.peak_rate) # Zero

\* opt.rate after lines 30, 46 and 48
OptRate(t) ==
    tc_fill_ratespec([ZeroRatespec EXCEPT !.rate = Rate32(t.rate),
                                          !.mpu = Wrap(t.mpu, U16Bits)], t.mtu)

\* opt.peakrate after lines 31 and 56-61
OptPeakrate(t) ==
    IF PeakBranch(t)
    THEN tc_fill_ratespec([ZeroRatespec EXCEPT !.rate = Rate32(t.peak_rate),
                                               !.mpu = Wrap(t.mpu, U16Bits)], t.mtu)
    ELSE [ZeroRatespec EXCEPT !.rate = Rate32(t.peak_rate)]

\* opt as it stands when TCA_TBF_PARMS is appended (lines 30-66)
BuildOpt(t, ub) ==
    [rate     |-> OptRate(t),
     peakrate |-> OptPeakrate(t),
     limit    |-> EffectiveLimit(t, ub),
     buffer   |-> tc_transmit_time(Rate32(t.rate), t.burst),
     mtu      |-> IF PeakBranch(t)
                  THEN tc_transmit_time(Rate32(t.peak_rate), t.mtu)
                  ELSE NoTime]

\* faulty variant of FillSteps: TCA_TBF_PRATE64 is decided by rate
FillStepsPrateByRate(t) ==
    <<"ratespec", "buffer">>
    \o (IF Rate32(t.peak_rate) # Zero THEN <<"pratespec", "pbuffer">> ELSE <<>>)
    \o <<"open", "TCA_TBF_PARMS", "TCA_TBF_BURST">>
    \o (IF ~Less(t.rate, Pow2(32)) THEN <<"TCA_TBF_RATE64">> ELSE <<>>)
    \o <<"TCA_TBF_RTAB">>
    \o (IF Rate32(t.peak_rate) # Zero
        THEN (IF ~Less(t.rate, Pow2(32)) THEN <<"TCA_TBF_PRATE64">> ELSE <<>>)
             \o <<"TCA_TBF_PBURST", "TCA_TBF_PTAB">>
        ELSE <<>>)
    \o <<"close">>

\* faulty variant of FillSteps: the peak burst is appended after the peak table
FillStepsPtabFirst(t) ==
    <<"ratespec", "buffer">>
    \o (IF Rate32(t.peak_rate) # Zero THEN <<"pratespec", "pbuffer">> ELSE <<>>)
    \o <<"open", "TCA_TBF_PARMS", "TCA_TBF_BURST">>
    \o (IF ~Less(t.rate, Pow2(32)) THEN <<"TCA_TBF_RATE64">> ELSE <<>>)
    \o <<"TCA_TBF_RTAB">>
    \o (IF Rate32(t.peak_rate) # Zero
        THEN (IF ~Less(t.peak_rate, Pow2(32)) THEN <<"TCA_TBF_PRATE64">> ELSE <<>>)
             \o <<"TCA_TBF_PTAB", "TCA_TBF_PBURST">>
        ELSE <<>>)
    \o <<"close">>

\* faulty variant of FillSteps: the container is opened before the
\* calculators run
FillStepsOpenFirst(t) ==
    <<"open", "ratespec", "buffer">>
    \o (IF Rate32(t.peak_rate) # Zero THEN <<"pratespec", "pbuffer">> ELSE <<>>)
    \o <<"TCA_TBF_PARMS", "TCA_TBF_BURST">>
    \o (IF ~Less(t.rate, Pow2(32)) THEN <<"TCA_TBF_RATE64">> ELSE <<>>)
    \o <<"TCA_TBF_RTAB">>
    \o (IF Rate32(t.peak_rate) # Zero
        THEN (IF ~Less(t.peak_rate, Pow2(32)) THEN <<"TCA_TBF_PRATE64">> ELSE <<>>)
             \o <<"TCA_TBF_PBURST", "TCA_TBF_PTAB">>
        ELSE <<>>)
    \o <<"close">>

\* the calls that can fail, in the order the function makes them
FillSteps(t) ==
    <<"ratespec", "buffer">>
    \o (IF PeakBranch(t) THEN <<"pratespec", "pbuffer">> ELSE <<>>)
    \o <<"open", "TCA_TBF_PARMS", "TCA_TBF_BURST">>
    \o (IF ~Less(t.rate, Pow2(32)) THEN <<"TCA_TBF_RATE64">> ELSE <<>>)
    \o <<"TCA_TBF_RTAB">>
    \o (IF PeakBranch(t)
        THEN (IF ~Less(t.peak_rate, Pow2(32)) THEN <<"TCA_TBF_PRATE64">> ELSE <<>>)
             \o <<"TCA_TBF_PBURST", "TCA_TBF_PTAB">>
        ELSE <<>>)
    \o <<"close">>

FailPoints ==
    {"ratespec", "buffer", "pratespec", "pbuffer", "open", "TCA_TBF_PARMS",
     "TCA_TBF_BURST", "TCA_TBF_RATE64", "TCA_TBF_RTAB", "TCA_TBF_PRATE64",
     "TCA_TBF_PBURST", "TCA_TBF_PTAB", "close"}

Attr(type, value) == [t |-> type, v |-> value]

\* what a call that succeeds appends to the request
Appended(t, ub, step) ==
    CASE step = "open"            -> <<Attr("TCA_OPTIONS", "tbf")>>
      [] step = "TCA_TBF_PARMS"   -> <<Attr(step, BuildOpt(t, ub))>>
      [] step = "TCA_TBF_BURST"   -> <<Attr(step, t.burst)>>
      [] step = "TCA_TBF_RATE64"  -> <<Attr(step, t.rate)>>
      [] step = "TCA_TBF_RTAB"    -> <<Attr(step, tc_table(OptRate(t), t.mtu))>>
      [] step = "TCA_TBF_PRATE64" -> <<Attr(step, t.peak_rate)>>
      [] step = "TCA_TBF_PBURST"  -> <<Attr(step, Wrap(t.mtu, U32Bits))>>
      [] step = "TCA_TBF_PTAB"    -> <<Attr(step, tc_table(OptPeakrate(t), t.mtu))>>
      [] step = "close"           -> <<Attr("END", "tbf")>>
      [] OTHER                    -> <<>>

RECURSIVE AppendAll(_, _, _)
AppendAll(t, ub, steps) ==
    IF steps = <<>> THEN <<>>
    ELSE Appended(t, ub, Head(steps)) \o AppendAll(t, ub, Tail(steps))

\* faulty variant of FillMessage: the failure of a call is logged and 0 is
\* returned
FillMessageReturnsZero(t, m, n, e, ub) ==
    [req |-> m \o AppendAll(t, ub, SubSeq(FillSteps(t), 1, n)), r |-> 0]

\* the function on entity t and request m when its first n calls succeed:
\* the request it leaves, and the value it returns when call n + 1, if there
\* is one, fails with e
FillMessage(t, m, n, e, ub) ==
    LET steps == FillSteps(t)
    IN  [req |-> m \o AppendAll(t, ub, SubSeq(steps, 1, n)),
         r   |-> IF n < Len(steps) THEN log_errno(e) ELSE 0]

\* the request as qdisc_configure hands it over
NewReq == <<Attr("TCA_KIND", "tbf")>>

\* the errors the calculators and sd-netlink return
ExtErrors == {-EINVAL, -ENOMEM}

\* whether lim is a double that the __u32 opt.limit cannot hold
LimitOverflows(t) ==
    /\ t.limit = Zero
    /\ LET lim  == Lim(t.rate, t.latency, t.burst)
           lim2 == Lim(t.peak_rate, t.latency, t.mtu)
       IN  ~Less(DivSmall(IF t.peak_rate # Zero THEN MinOf(lim, lim2) ELSE lim,
                          USEC_PER_SEC), Pow2(32))

UBChoices(t) == IF LimitOverflows(t) THEN UBOutcomes ELSE {"none"}

\* faulty variant of token_buffer_filter_fill_message: the limit that was
\* computed is stored in the entity
FillMessageStoresLimit(ub) ==
    /\ pc = "verified"
    /\ ~dropped
    /\ LET res == FillMessage(tbf, NewReq, Len(FillSteps(tbf)), 0, ub)
       IN  /\ req' = res.req
           /\ ret' = res.r
    /\ last' = Call("fill", "", "", "", 0)
    /\ pc' = "configured"
    /\ tbf' = [tbf EXCEPT !.limit = EffectiveLimit(tbf, ub)]
    /\ UNCHANGED <<kind, invalid, dropped, log, trace>>

\* every call succeeds
token_buffer_filter_fill_message(ub) ==
    /\ pc = "verified"
    /\ ~dropped
    /\ LET res == FillMessage(tbf, NewReq, Len(FillSteps(tbf)), 0, ub)
       IN  /\ req' = res.req
           /\ ret' = res.r
    /\ last' = Call("fill", "", "", "", 0)
    /\ pc' = "configured"
    /\ UNCHANGED <<kind, tbf, invalid, dropped, log, trace>>

\* call n of the function fails with e
token_buffer_filter_fill_message_fails(n, e, ub) ==
    /\ pc = "verified"
    /\ ~dropped
    /\ n <= Len(FillSteps(tbf))
    /\ LET res == FillMessage(tbf, NewReq, n - 1, e, ub)
       IN  /\ req' = res.req
           /\ ret' = res.r
    /\ last' = Call("fill", "", "", FillSteps(tbf)[n], e)
    /\ pc' = "configured"
    /\ UNCHANGED <<kind, tbf, invalid, dropped, log, trace>>

\* qdisc_configure of the registry runs the encoder on a section that was
\* verified and kept; any one of the calls the encoder makes may fail
Configure ==
    /\ pc = "verified"
    /\ ~dropped
    /\ \E ub \in UBChoices(tbf) :
          \/ token_buffer_filter_fill_message(ub)
          \/ \E n \in 1..Len(FillSteps(tbf)) : \E e \in ExtErrors :
                token_buffer_filter_fill_message_fails(n, e, ub)

Next ==
    \/ \E lvalue \in SizeLValues : \E rvalue \in RValues(lvalue) :
          config_parse_token_buffer_filter_size(lvalue, rvalue, FALSE)
    \/ config_parse_token_buffer_filter_size("Rate", "1M", TRUE)
    \/ \E rvalue \in RValues(OtherLValue) :
          config_parse_token_buffer_filter_size(OtherLValue, rvalue, FALSE)
    \/ \E rvalue \in RValues("LatencySec") :
          config_parse_token_buffer_filter_latency(rvalue, FALSE)
    \/ config_parse_token_buffer_filter_latency("50ms", TRUE)
    \/ OtherKindLine
    \/ qdisc_section_verify
    \/ Configure

Spec == Init /\ [][Next]_vars

(***************************************************************************)
(* The lines of one section alone, with the record of the lines that were  *)
(* stored: the handlers on sections of up to MaxLines such lines.          *)
(***************************************************************************)
MaxLines == 3

\* the right-hand sides written in these sections
LineValues(lvalue) ==
    CASE lvalue = "Rate"       -> {"", "1M", "1T"}
      [] lvalue = "Burst"      -> {"", "bogus", "1600", "10K"}
      [] lvalue = "MTUBytes"   -> {"1600"}
      [] lvalue = "MPUBytes"   -> {"64"}
      [] lvalue = "PeakRate"   -> {"1M"}
      [] lvalue = "LimitSize"  -> {"10K"}
      [] lvalue = "LatencySec" -> {"", "50ms"}

InitLines ==
    /\ kind = "none"
    /\ tbf = NewTbf
    /\ invalid = FALSE
    /\ pc = "parsing"
    /\ dropped = FALSE
    /\ req = <<>>
    /\ ret = 0
    /\ last = Call("init", "", "", "", 0)
    /\ log = <<>>
    /\ trace = <<>>

SizeLine ==
    /\ Len(trace) < MaxLines
    /\ \E lvalue \in SizeLValues : \E rvalue \in LineValues(lvalue) :
          config_parse_token_buffer_filter_size(lvalue, rvalue, FALSE)

LatencyLine ==
    /\ Len(trace) < MaxLines
    /\ \E rvalue \in LineValues("LatencySec") :
          config_parse_token_buffer_filter_latency(rvalue, FALSE)

NextLines == SizeLine \/ LatencyLine

SpecLines == InitLines /\ [][NextLines]_vars

(***************************************************************************)
(* Properties.                                                             *)
(***************************************************************************)
Parsed == last.op \in {"size", "latency"}

Verified == last.op = "verify" /\ ~invalid

Filled == last.op = "fill"

Encoded == Filled /\ ret = 0

AtLeast2Pow32(x) == ~Less(x, Pow2(32))

HasAttr(type) == \E i \in 1..Len(req) : req[i].t = type

\* the attribute types the encoder appended to the request it was given
Emitted == [i \in 1..(Len(req) - Len(NewReq)) |-> req[i + Len(NewReq)].t]

\* the options record the request carries
Parms == req[CHOOSE i \in 1..Len(req) : req[i].t = "TCA_TBF_PARMS"].v

IsPrefix(a, b) == Len(a) <= Len(b) /\ a = SubSeq(b, 1, Len(a))

\* the entity satisfies the five rules of the validator
Consistent(t) ==
    /\ (t.limit # Zero) # (t.latency # Zero)
    /\ t.rate # Zero
    /\ t.burst # Zero
    /\ t.peak_rate # Zero => t.mtu # Zero

\* C1: token_buffer_filter_verify returns 0 iff exactly one of limit and
\* latency is nonzero, rate > 0, burst > 0 and (peak_rate > 0 => mtu > 0);
\* each of the five violations is answered with a negative result.
C1_VerifyAcceptsIffConsistent ==
    Verified =>
        /\ ret = 0 <=> Consistent(tbf)
        /\ ret <= 0
        /\ tbf.limit # Zero /\ tbf.latency # Zero => ret < 0
        /\ tbf.limit = Zero /\ tbf.latency = Zero => ret < 0
        /\ tbf.rate = Zero => ret < 0
        /\ tbf.burst = Zero => ret < 0
        /\ tbf.peak_rate # Zero /\ tbf.mtu = Zero => ret < 0

\* a section whose only fault is PeakRate= without MTUBytes= was rejected
C1_Witness ==
    /\ Verified
    /\ ret < 0
    /\ tbf.peak_rate # Zero /\ tbf.mtu = Zero
    /\ tbf.rate # Zero /\ tbf.burst # Zero
    /\ tbf.limit = Zero /\ tbf.latency # Zero

\* C2 (as claimed): with limit > 0 the limit of the options record is the
\* configured limit.
C2_ExplicitLimitVerbatim ==
    (Filled /\ HasAttr("TCA_TBF_PARMS") /\ tbf.limit # Zero) => Parms.limit = tbf.limit

\* C3 (as claimed): with limit = 0, latency > 0 and peak_rate = 0 the limit of
\* the options record is rate * latency / 1000000 + burst, truncated.
C3_DerivedLimit ==
    (Filled /\ HasAttr("TCA_TBF_PARMS")
        /\ tbf.limit = Zero /\ tbf.latency # Zero /\ tbf.peak_rate = Zero)
    => Parms.limit =
          DivSmall(Add(Mul(tbf.rate, tbf.latency), Mul(tbf.burst, U(USEC_PER_SEC))),
                   USEC_PER_SEC)

\* C4 (as claimed): with limit = 0 and peak_rate > 0 the limit of the options
\* record is the smaller of rate * latency_s + burst and
\* peak_rate * latency_s + mtu, truncated.
C4_DerivedLimitWithPeak ==
    (Filled /\ HasAttr("TCA_TBF_PARMS") /\ tbf.limit = Zero /\ tbf.peak_rate # Zero)
    => LET a == Add(Mul(tbf.rate, tbf.latency), Mul(tbf.burst, U(USEC_PER_SEC)))
           b == Add(Mul(tbf.peak_rate, tbf.latency), Mul(tbf.mtu, U(USEC_PER_SEC)))
       IN  Parms.limit = DivSmall(IF Less(a, b) THEN a ELSE b, USEC_PER_SEC)

\* C5: a successful encode carries TCA_TBF_RATE64 iff rate >= 2^32 and
\* TCA_TBF_PRATE64 iff peak_rate >= 2^32, each with the unclamped value.
C5_Rate64Attributes ==
    Encoded =>
        /\ HasAttr("TCA_TBF_RATE64") <=> AtLeast2Pow32(tbf.rate)
        /\ HasAttr("TCA_TBF_PRATE64") <=> AtLeast2Pow32(tbf.peak_rate)
        /\ \A i \in 1..Len(req) :
              /\ req[i].t = "TCA_TBF_RATE64" => req[i].v = tbf.rate
              /\ req[i].t = "TCA_TBF_PRATE64" => req[i].v = tbf.peak_rate

\* an encode with rate >= 2^32 and a peak rate below it
C5_Witness ==
    /\ Encoded
    /\ HasAttr("TCA_TBF_RATE64") /\ ~HasAttr("TCA_TBF_PRATE64")
    /\ HasAttr("TCA_TBF_PTAB")
    /\ AtLeast2Pow32(tbf.rate) /\ tbf.peak_rate # Zero

\* the sequence of attribute types the specification prescribes
Prescribed(t) ==
    <<"TCA_OPTIONS", "TCA_TBF_PARMS", "TCA_TBF_BURST">>
    \o (IF AtLeast2Pow32(t.rate) THEN <<"TCA_TBF_RATE64">> ELSE <<>>)
    \o <<"TCA_TBF_RTAB">>
    \o (IF t.peak_rate # Zero /\ AtLeast2Pow32(t.peak_rate)
        THEN <<"TCA_TBF_PRATE64">> ELSE <<>>)
    \o (IF t.peak_rate # Zero THEN <<"TCA_TBF_PBURST", "TCA_TBF_PTAB">> ELSE <<>>)
    \o <<"END">>

\* C6: a successful encode appends exactly: the TCA_OPTIONS container,
\* PARMS, BURST, RATE64 (iff rate >= 2^32), RTAB, then only for
\* peak_rate > 0 PRATE64 (iff peak_rate >= 2^32), PBURST carrying mtu and
\* PTAB, and the end of the container; an encode that fails has appended a
\* proper prefix of that sequence.
C6_EmissionOrder ==
    Filled =>
        /\ IsPrefix(Emitted, Prescribed(tbf))
        /\ ret = 0 <=> Emitted = Prescribed(tbf)
        /\ \A i \in 1..Len(req) : req[i].t = "TCA_TBF_PBURST" => req[i].v = tbf.mtu

\* a complete encode with both 64-bit attributes and the peak attributes
C6_Witness ==
    /\ Encoded
    /\ Len(Emitted) = 9
    /\ Emitted[4] = "TCA_TBF_RATE64" /\ Emitted[6] = "TCA_TBF_PRATE64"

\* the field a key names
KeyField(key) ==
    CASE key = "Rate"       -> "rate"
      [] key = "Burst"      -> "burst"
      [] key = "LimitSize"  -> "limit"
      [] key = "MTUBytes"   -> "mtu"
      [] key = "MPUBytes"   -> "mpu"
      [] key = "PeakRate"   -> "peak_rate"
      [] key = "LatencySec" -> "latency"

Keys == SizeLValues \cup {"LatencySec"}

\* the entity a line works on: the registered one, or a new one
Entity == IF kind = "tbf" THEN tbf ELSE NewTbf

\* the step handles a line Key=rvalue for which qdisc_new_static succeeded
Line(key, rvalue) ==
    /\ last' = Call(IF key = "LatencySec" THEN "latency" ELSE "size",
                    key, rvalue, last'.fail, last'.err)
    /\ last'.fail # "qdisc_new_static"
    /\ pc = "parsing"

\* C7: a line with an empty value, for any of the seven keys, sets the field
\* of its key to 0, leaves the other fields as they were, leaves the entity
\* registered and not marked invalid, and returns 0.
C7_EmptyValueResetsOneField ==
    [][\A key \in Keys :
          Line(key, "") =>
              /\ tbf' = [Entity EXCEPT ![KeyField(key)] = Zero]
              /\ kind' = "tbf"
              /\ invalid' = invalid
              /\ ret' = 0]_vars

\* Burst= with an empty value was handled on an entity that holds other
\* fields
C7_Witness ==
    /\ last = Call("size", "Burst", "", "", 0)
    /\ ret = 0 /\ kind = "tbf" /\ ~invalid
    /\ tbf.burst = Zero
    /\ tbf.rate # Zero /\ tbf.latency # Zero /\ tbf.mtu # Zero

\* C8 (as claimed): a line whose non-empty value the parser rejects changes
\* no field, leaves the entity registered and not marked invalid, and returns
\* 0.
C8_ParseErrorIsNoOp ==
    [][\A key \in Keys :
          (Line(key, last'.rvalue) /\ last'.fail \in {"parse_size", "parse_sec"}) =>
              /\ tbf' = Entity
              /\ kind' = "tbf"
              /\ invalid' = invalid
              /\ ret' = 0]_vars

\* C9 (as claimed): a line for a section that holds another discipline kind
\* changes nothing and is not reported to the line parser as an error; only
\* -ENOMEM is returned.
C9_ConflictIsNotFatal ==
    (Parsed /\ last.fail = "qdisc_new_static") =>
        /\ ret < 0 <=> last.err = -ENOMEM
        /\ last.err # -ENOMEM => (kind = "other" /\ tbf = NewTbf /\ ~invalid)

\* C10: when a rate-table or transmit-time calculation fails, for the rate or
\* for the peak rate, the encoder returns that error and the request is as it
\* was on entry.
C10_CalculatorFailureLeavesRequest ==
    (Filled /\ last.fail \in {"ratespec", "buffer", "pratespec", "pbuffer"}) =>
        /\ ret = last.err
        /\ ret < 0
        /\ req = NewReq

\* the transmit-time calculation for the peak rate failed
C10_Witness ==
    /\ Filled
    /\ last.fail = "pbuffer"
    /\ ret < 0
    /\ req = NewReq
    /\ tbf.peak_rate # Zero

\* the attributes of the discipline
TbfAttrs ==
    {"TCA_TBF_PARMS", "TCA_TBF_BURST", "TCA_TBF_RATE64", "TCA_TBF_RTAB",
     "TCA_TBF_PRATE64", "TCA_TBF_PBURST", "TCA_TBF_PTAB"}

\* the calls that come before the container is opened
Calculators == {"ratespec", "buffer", "pratespec", "pbuffer"}

\* the position of the first attribute of this type in the request, 0 if none
Position(type) ==
    IF HasAttr(type) THEN CHOOSE i \in 1..Len(req) :
                              req[i].t = type /\ \A j \in 1..(i - 1) : req[j].t # type
    ELSE 0

\* C11 (as claimed): a call that fails makes the encoder return an error, and
\* whenever the encoder has returned the request holds no attribute of the
\* discipline inside a container that was not closed.
C11_NoUnclosedContainer ==
    Filled =>
        /\ last.fail # "" => ret < 0
        /\ (\E i \in 1..Len(req) : req[i].t \in TbfAttrs) => HasAttr("END")

\* C11 (amended): a call that fails makes the encoder return that error at
\* once, with nothing appended for the failed call or after it; no attribute
\* of the discipline is appended outside the container, and an encoder that
\* returned 0 has closed the container as the last thing.  An encoder that
\* failed has not closed the container: what was appended before the failure
\* stays in the request.
C11_AbortAtFirstFailure ==
    Filled =>
        /\ last.fail # "" => ret = last.err /\ ret < 0
        /\ last.fail = "" => ret = 0
        /\ \A i \in 1..Len(req) :
              req[i].t \in TbfAttrs => 0 < Position("TCA_OPTIONS") /\ Position("TCA_OPTIONS") < i
        /\ ret = 0 => req[Len(req)].t = "END" /\ Position("END") = Len(req)
        /\ ret < 0 =>
              /\ ~HasAttr("END")
              /\ ~HasAttr(last.fail)
              /\ last.fail \notin Calculators \cup {"open"} => HasAttr("TCA_OPTIONS")
              /\ last.fail = "open" => req = NewReq

\* the append of the rate table failed after the options record and the
\* burst were appended
C11_Witness ==
    /\ Filled
    /\ last.fail = "TCA_TBF_RTAB"
    /\ ret < 0
    /\ HasAttr("TCA_OPTIONS") /\ HasAttr("TCA_TBF_PARMS") /\ HasAttr("TCA_TBF_BURST")
    /\ ~HasAttr("END")

\* the five rules in the order of the validator, each by the option its
\* warning names
RuleOrder == <<"LimitSize+LatencySec", "LimitSize|LatencySec", "Rate", "Burst", "MTUBytes">>

\* the rules the entity violates
ViolatedRules(t) ==
    {r \in {RuleOrder[i] : i \in 1..Len(RuleOrder)} :
        \/ r = "LimitSize+LatencySec" /\ t.limit # Zero /\ t.latency # Zero
        \/ r = "LimitSize|LatencySec" /\ t.limit = Zero /\ t.latency = Zero
        \/ r = "Rate" /\ t.rate = Zero
        \/ r = "Burst" /\ t.burst = Zero
        \/ r = "MTUBytes" /\ t.peak_rate # Zero /\ t.mtu = Zero}

\* C12 (as claimed): the validator logs one warning per violated rule, k
\* warnings for an entity that violates k rules, each naming its option, and
\* rejects the section when k >= 1.
C12_OneWarningPerViolatedRule ==
    Verified =>
        /\ Len(log) = Cardinality(ViolatedRules(tbf))
        /\ {log[i] : i \in 1..Len(log)} = ViolatedRules(tbf)
        /\ ViolatedRules(tbf) # {} => ret < 0

\* C12 (amended): the validator tests the five rules in a fixed order and
\* returns at the first one violated: for an entity that violates k >= 1
\* rules it logs exactly one warning, naming the option of the first violated
\* rule in that order, and rejects the section; for an entity that violates
\* none it logs nothing and accepts.
C12_FirstViolatedRuleOnly ==
    Verified =>
        IF ViolatedRules(tbf) = {}
        THEN log = <<>> /\ ret = 0
        ELSE /\ Len(log) = 1
             /\ \E i \in 1..Len(RuleOrder) :
                   /\ log[1] = RuleOrder[i]
                   /\ RuleOrder[i] \in ViolatedRules(tbf)
                   /\ \A j \in 1..(i - 1) : RuleOrder[j] \notin ViolatedRules(tbf)
             /\ ret < 0

\* an entity without Rate= and without Burst= was rejected with the one
\* warning about Rate=
C12_Witness ==
    /\ Verified
    /\ tbf.rate = Zero /\ tbf.burst = Zero
    /\ tbf.limit = Zero /\ tbf.latency # Zero
    /\ Cardinality(ViolatedRules(tbf)) >= 2
    /\ log = <<"Rate">>
    /\ ret < 0

\* the value a line Key=rvalue with a parsed value is claimed to store
ClaimedValue(key, rvalue) ==
    CASE key \in {"Rate", "PeakRate"} -> DivSmall(parse_size(rvalue).k, 8)
      [] key = "LatencySec"           -> parse_sec(rvalue).u
      [] OTHER                        -> parse_size(rvalue).k

\* the step handles a line with a non-empty value that was parsed
ParsedLine(key) ==
    /\ Line(key, last'.rvalue)
    /\ last'.rvalue # ""
    /\ last'.fail = ""

\* C13 (as claimed): a line with a parsed non-empty value changes the field
\* of its key and no other: Rate and PeakRate to the parsed value divided by
\* 8, Burst, LimitSize, MPUBytes and MTUBytes to the parsed value, LatencySec
\* to the duration in microseconds; a line of any other key changes no field.
C13_ParsedValueStored ==
    [][/\ \A key \in Keys :
             ParsedLine(key) =>
                 tbf' = [Entity EXCEPT ![KeyField(key)] = ClaimedValue(key, last'.rvalue)]
       /\ ParsedLine(OtherLValue) => tbf' = Entity]_vars

\* 0xFFFFFFFF
Sentinel == <<255, 255, 255, 255>>

\* a rate as the claim puts it into a descriptor
Clamped(x) == IF AtLeast2Pow32(x) THEN Sentinel ELSE x

\* C14: the rate of the record's rate descriptor is rate when rate < 2^32
\* and 0xFFFFFFFF when rate >= 2^32, and the same for the peak-rate
\* descriptor and peak_rate; the descriptor's peak rate is nonzero exactly
\* when peak_rate > 0, and the peak branch is taken exactly then.
C14_ClampedRates ==
    (Filled /\ HasAttr("TCA_TBF_PARMS")) =>
        /\ Parms.rate.rate = Clamped(tbf.rate)
        /\ Parms.peakrate.rate = Clamped(tbf.peak_rate)
        /\ Parms.peakrate.rate # Zero <=> tbf.peak_rate # Zero
        /\ Parms.peakrate.table.filled <=> tbf.peak_rate # Zero
        /\ Parms.mtu # NoTime <=> tbf.peak_rate # Zero
        /\ Encoded => (HasAttr("TCA_TBF_PTAB") <=> tbf.peak_rate # Zero)

\* an encode with a peak rate of 2^32 or more and a rate below it
C14_Witness ==
    /\ Encoded
    /\ AtLeast2Pow32(tbf.peak_rate)
    /\ tbf.rate # Zero /\ ~AtLeast2Pow32(tbf.rate)
    /\ Parms.peakrate.rate = Sentinel
    /\ Parms.rate.rate = tbf.rate
    /\ HasAttr("TCA_TBF_PTAB")

Fields == {"rate", "peak_rate", "burst", "mtu", "latency", "limit", "mpu"}

\* the step handles a line that succeeded: an empty value, or a value that
\* was parsed
StoredLine(key) == Line(key, last'.rvalue) /\ last'.fail = ""

\* C15: no entity exists before the first line of the section; a line that
\* succeeds creates the entity when there is none and otherwise works on the
\* one the registry holds, whose other fields it keeps; it leaves the entity
\* registered and, the handler having cleared its pointer, not marked
\* invalid.
C15_OneEntityAccumulates ==
    /\ [](kind # "tbf" => tbf = NewTbf /\ ~invalid)
    /\ [][\A key \in Keys \cup {OtherLValue} :
             StoredLine(key) =>
                 /\ kind' = "tbf"
                 /\ invalid' = invalid
                 /\ \A f \in Fields :
                       (key = OtherLValue \/ f # KeyField(key)) =>
                           tbf'[f] = (IF kind = "tbf" THEN tbf[f] ELSE Zero)]_vars

\* LatencySec= was stored on the entity that earlier lines gave a rate and a
\* burst
C15_Witness ==
    /\ last = Call("latency", "LatencySec", "50ms", "", 0)
    /\ kind = "tbf" /\ ~invalid
    /\ tbf.latency # Zero /\ tbf.rate # Zero /\ tbf.burst # Zero

\* the attribute types a complete encode of entity t appends
EncodedTypes(t) ==
    LET a == AppendAll(t, "wrap", FillSteps(t))
    IN  [i \in 1..Len(a) |-> a[i].t]

\* C16: the validator and the encoder leave every field of the entity as it
\* was, whether they succeed or fail; the validator run on the entity it
\* leaves gives the result and the warning it gave, and a complete encode of
\* the entity the encoder leaves appends the attribute sequence it appended.
C16_VerifyAndFillReadOnly ==
    [][last'.op \in {"verify", "fill"} =>
          /\ tbf' = tbf
          /\ (last'.op = "verify" /\ ~invalid) =>
                /\ ret' = token_buffer_filter_verify(tbf')
                /\ log' = VerifyWarnings(tbf')
          /\ (last'.op = "fill" /\ ret' = 0) => Emitted' = EncodedTypes(tbf')
          /\ (last'.op = "fill" /\ ret' < 0) => IsPrefix(Emitted', EncodedTypes(tbf'))]_vars

\* the encoder derived a limit from the latency and the entity still has
\* none
C16_Witness ==
    /\ Encoded
    /\ tbf.limit = Zero /\ tbf.latency # Zero
    /\ Parms.limit # Zero

\* the value of the first attribute of this type in the request
ValueOf(type) == req[Position(type)].v

\* C17 (as claimed): the buffer of the record is the transmit time of burst
\* bytes at rate and the rate descriptor's mpu is mpu, for every rate; with
\* peak_rate > 0 the peak descriptor and the peak table are computed with mtu
\* and the mtu of the record is the transmit time of mtu bytes at peak_rate;
\* with peak_rate = 0 no peak calculator runs and the peak descriptor and the
\* mtu of the record stay zero.
C17_TransmitTimes ==
    (Filled /\ HasAttr("TCA_TBF_PARMS")) =>
        /\ Parms.buffer = tc_transmit_time(tbf.rate, tbf.burst)
        /\ Parms.rate.mpu = tbf.mpu
        /\ tbf.peak_rate # Zero =>
              /\ Parms.peakrate.table = [filled |-> TRUE, mtu |-> tbf.mtu]
              /\ Parms.mtu = tc_transmit_time(tbf.peak_rate, tbf.mtu)
              /\ HasAttr("TCA_TBF_PTAB") => ValueOf("TCA_TBF_PTAB").mtu = tbf.mtu
        /\ tbf.peak_rate = Zero =>
              /\ Parms.peakrate = ZeroRatespec
              /\ Parms.mtu = NoTime
              /\ ~HasAttr("TCA_TBF_PTAB")

\* C18 (as claimed): the limit of the record that is encoded for an entity
\* the validator accepted is never 0.
C18_LimitPositive ==
    (Filled /\ HasAttr("TCA_TBF_PARMS")) => Parms.limit # Zero

\* whether a line of this key was stored
Written(key) == \E i \in 1..Len(trace) : trace[i].lvalue = key

\* the last line of this key that was stored
LastLine(key) ==
    trace[CHOOSE i \in 1..Len(trace) :
              /\ trace[i].lvalue = key
              /\ \A j \in (i + 1)..Len(trace) : trace[j].lvalue # key]

\* C19: after any sequence of lines that were stored, each field is the
\* value of the last line of its own key (0 when that line had an empty
\* value, or when the key had no line), however the lines of the other keys
\* were interleaved.
C19_LastWriterWins ==
    trace # NoTrace =>
        \A key \in Keys :
            tbf[KeyField(key)] =
                IF ~Written(key) \/ LastLine(key).rvalue = "" THEN Zero
                ELSE ClaimedValue(key, LastLine(key).rvalue)

\* Rate= was written twice with a line of another key between the two
C19_Witness ==
    /\ Len(trace) = 3
    /\ trace[1] = [lvalue |-> "Rate", rvalue |-> "1T"]
    /\ trace[2] = [lvalue |-> "Burst", rvalue |-> "1600"]
    /\ trace[3] = [lvalue |-> "Rate", rvalue |-> "1M"]
    /\ tbf.rate = DivSmall(parse_size("1M").k, 8)
    /\ tbf.burst # Zero

====
